---- MODULE Spec2Model ----
(***************************************************************************)
(* Model of the VMAIL agent of VMAIL/robosuite_task/vmail.py: the main     *)
(* control loop (main), the rollout driver (tools.simulate), the agent     *)
(* call (VMAIL.__call__, policy, _exploration), the training batch and     *)
(* the metrics flush (_write_summaries), the checkpoint (load / save).     *)
(* SpecLive is the control loop under weak fairness of its next step.      *)
(* Further specifications take one part of the program on its own: the     *)
(* mirrored training step (SpecTrain), the returns (SpecReturn) and their  *)
(* discount weights (SpecWeights), the imagination rollout (SpecImagine),  *)
(* the discriminator's expert inputs (SpecExpert), the losses (SpecLoss),  *)
(* the exploration noise (SpecExplore), the state carried between agent    *)
(* calls (SpecCarry), and the shared Counter of pnn-dr-main-robosuite      *)
(* (SpecCounter).                                                          *)
(***************************************************************************)
EXTENDS Integers, Sequences, FiniteSets, TLC

(* ------------------------------------------------------------------ *)
(* Configuration, scaled down from define_config so that every         *)
(* schedule fires within a few environment steps.                      *)
(* ------------------------------------------------------------------ *)
MaxEnvs == 2
action_repeat == 2
steps == 6
eval_every == 4
train_every == 2
log_every == 4
train_steps == 2
pretrain == 1
EpLimit == 2
MaxStep == 10
expl_amount == 1
Unit == 2
log_scalars == TRUE
log_images == TRUE

None == -1

KnownExpl == {"additive_gaussian", "completely_random", "epsilon_greedy"}
ExplChoices == KnownExpl \cup {"unknown_variant"}
ActionVals == {-1, 0, 1}
TrainMetricNames == {"model_loss", "div"}
Noise == {-1, 0, 1}

VARIABLES
  cfg,            \* num_envs, expl, eval_noise, store
  mpc,            \* main: position in the control loop
  mstep,          \* main: local `step`
  disk,           \* environment steps stored in policy_datadir
  ckpt,           \* variables.pkl: the saved step counter, or None
  agent_step,     \* VMAIL._step
  train_last,     \* VMAIL._should_train._last
  log_last,       \* VMAIL._should_log._last
  once,           \* VMAIL._should_pretrain._once
  last_log,       \* VMAIL._last_log
  metrics,        \* VMAIL._metrics: name -> updates held by the running mean
  metricsLog,     \* logdir/metrics.jsonl: the records appended since construction
  cpc,            \* __call__: position
  call,           \* __call__: locals (training, step, log, n, train_step, log_images)
  spc,            \* simulate: position
  sim,            \* simulate: locals
  cstate,         \* main: `state`, the collection rollout's carried state
  pendingAction,  \* an action selected by the agent and not yet sent to the envs
  inflight,       \* envs with a step issued whose result is not collected yet
  tr,             \* one mirrored training step (VMAIL.train), replica by replica
  lr,             \* the return computation of one training step
  fx,             \* one computation of a training step or of a policy call: inputs and results
  ctr,            \* utils.Counter: the shared value, its lock and the calling processes
  open_envs       \* main: the environments of train_envs and test_envs not closed yet

vars == <<tr, lr, fx, ctr, open_envs, cfg, mpc, mstep, disk, ckpt, agent_step, train_last, log_last, once,
          last_log, metrics, metricsLog, cpc, call, spc, sim, cstate,
          pendingAction, inflight>>

Envs == 1..cfg.num_envs

(* main, lines 690-693: num_envs train environments and as many test ones *)
AllEnvs == {"train", "test"} \X Envs

count_steps(d) == d * action_repeat

(* tools.Every.__call__: fires on the first call and then every `every` steps *)
EveryFires(last, every, step) == last = None \/ step >= last + every
EveryLast(last, every, step) ==
  IF last = None THEN step
  ELSE IF step >= last + every THEN last + every ELSE last

FlushCount(log) == Cardinality({i \in 1..Len(log) : log[i].kind = "flush"})

(* tf.metrics.Mean.update_state on self._metrics[name]; a missing name is
   created by the defaultdict.  An update is tagged with the number of
   flushes written before it. *)
update_state(m, names, tag) ==
  [k \in (DOMAIN m) \cup names |->
     IF k \in names
       THEN (IF k \in DOMAIN m THEN m[k] ELSE {}) \cup {tag}
       ELSE m[k]]

(* faulty variant: the flush leaves the running means as they are *)
reset_states_keeps(m) == m

reset_states(m) == [k \in DOMAIN m |-> {}]

(* make_env, lines 635-638: the train envs store a finished episode in
   policy_datadir when store is set, the test envs never do *)
StoreEpisode(prefix, store, d, length) ==
  IF prefix = "train" /\ store THEN d + length ELSE d

(* summarize_episode, lines 592-602: the record it appends to metrics.jsonl *)
EpisodeRecord(prefix, d) ==
  [kind |-> "episode", prefix |-> prefix, step |-> count_steps(d)]

SimInit == [steps |-> 0, episodes |-> 0, step |-> 0, episode |-> 0,
            done |-> [e \in Envs |-> TRUE], length |-> [e \in Envs |-> 0],
            newdone |-> [e \in Envs |-> FALSE], k |-> 0, has_state |-> FALSE]

NoCall == [training |-> FALSE, step |-> 0, log |-> FALSE, n |-> 0, train_step |-> 0,
           log_images |-> FALSE]

TrOff == [phase |-> "off"]
LrOff == [phase |-> "off"]
FxOff == [phase |-> "off"]
CtrOff == [phase |-> "off"]

Init ==
  /\ tr = TrOff
  /\ lr = LrOff
  /\ fx = FxOff
  /\ ctr = CtrOff
  /\ cfg \in [num_envs : 1..MaxEnvs, expl : ExplChoices, eval_noise : 0..1,
              store : BOOLEAN]
  /\ open_envs = AllEnvs
  /\ disk \in 0..1
  /\ ckpt \in {None, count_steps(1)}
  /\ mpc = "init"
  /\ mstep = count_steps(disk)
  /\ agent_step = count_steps(disk)
  /\ train_last = None
  /\ log_last = None
  /\ once = TRUE
  /\ last_log = None
  /\ metrics = [k \in {"expl_amount"} |-> {}]
  /\ metricsLog = << >>
  /\ cpc = "idle"
  /\ call = NoCall
  /\ spc = "off"
  /\ sim = SimInit
  /\ cstate = [set |-> FALSE]
  /\ pendingAction = FALSE
  /\ inflight = {}

(* ------------------------------------------------------------------ *)
(* Real numbers are exact rationals <<numerator, denominator>>.        *)
(* ------------------------------------------------------------------ *)
RECURSIVE GCD(_, _)
GCD(a, b) == IF b = 0 THEN a ELSE GCD(b, a % b)
Abs(x) == IF x < 0 THEN -x ELSE x

(* a rational in lowest terms, the denominator positive *)
RNorm(a) == LET g == GCD(Abs(a[1]), a[2]) IN <<a[1] \div g, a[2] \div g>>
RInt(i) == <<i, 1>>
RAdd(a, b) == RNorm(<<a[1] * b[2] + b[1] * a[2], a[2] * b[2]>>)
RSub(a, b) == RNorm(<<a[1] * b[2] - b[1] * a[2], a[2] * b[2]>>)
RMul(a, b) == RNorm(<<a[1] * b[1], a[2] * b[2]>>)
REq(a, b) == a[1] * b[2] = b[1] * a[2]

RECURSIVE RPow(_, _)
RPow(a, k) == IF k = 0 THEN RInt(1) ELSE RMul(a, RPow(a, k - 1))

RNeg(a) == <<-a[1], a[2]>>
RLe(a, b) == a[1] * b[2] <= b[1] * a[2]
RLt(a, b) == a[1] * b[2] < b[1] * a[2]
RMax(a, b) == IF RLe(a, b) THEN b ELSE a
RMin(a, b) == IF RLe(a, b) THEN a ELSE b
(* a / float(n) *)
RDivInt(a, n) == RNorm(<<a[1], a[2] * n>>)

(* ------------------------------------------------------------------ *)
(* VMAIL._exploration.  Actions are scalars on the grid of step 1/Unit *)
(* in the valid range [-1, 1].  rnd holds the random draws the code     *)
(* makes: z for Normal.sample, u for uniform(-1, 1), p for              *)
(* uniform(0, 1), hot for the one-hot component.                        *)
(* ------------------------------------------------------------------ *)
MaxHalvings == 2

(* faulty variant: the noisy action is returned as sampled *)
ClipNone(x) == x

(* tf.clip_by_value(x, -1, 1) *)
Clip(x) == IF RLt(x, RInt(-1)) THEN RInt(-1) ELSE IF RLt(RInt(1), x) THEN RInt(1) ELSE x

Rnd == [z : Noise, u : {RInt(-1), RInt(0), RInt(1)},
        p : {RInt(0), RNorm(<<Unit - 1, Unit>>)}, hot : BOOLEAN]

(* the part of the config _exploration reads; define_config, lines 70 and
   113-116, has no decay and no minimum *)
ExplConfig(c) ==
  [expl |-> c.expl, eval_noise |-> RNorm(<<c.eval_noise, Unit>>),
   expl_amount |-> RNorm(<<expl_amount, Unit>>), expl_decay |-> 0, expl_min |-> RInt(0)]

(* 0.5 ** (step / expl_decay), taken at the steps that are multiples of
   expl_decay, where the power is rational *)
HalfPow(step, expl_decay) == RPow(<<1, 2>>, step \div expl_decay)

(* _exploration, lines 418-426: the noise scale *)
ExplAmount(training, c, step) ==
  IF training
    THEN LET decayed == IF c.expl_decay # 0
                          THEN RMul(c.expl_amount, HalfPow(step, c.expl_decay))
                          ELSE c.expl_amount
         IN IF c.expl_min # RInt(0) THEN RMax(c.expl_min, decayed) ELSE decayed
    ELSE c.eval_noise

Returned(a) == [raised |-> FALSE, action |-> a]
Raised == [raised |-> TRUE, action |-> RInt(0)]

(* faulty variant: an unknown variant falls through and the action is returned *)
exploration_falls_through(action, training, c, rnd, step) ==
  IF ~training /\ c.eval_noise = RInt(0) THEN Returned(action)
  ELSE IF c.expl = "completely_random" THEN Returned(rnd.u)
  ELSE IF c.expl = "epsilon_greedy"
    THEN Returned(IF RLt(rnd.p, ExplAmount(training, c, step))
                    THEN (IF rnd.hot THEN RInt(1) ELSE RInt(0)) ELSE action)
  ELSE Returned(Clip(RAdd(action, RMul(ExplAmount(training, c, step), RInt(rnd.z)))))

(* _exploration, lines 417-438 *)
exploration(action, training, c, rnd, step) ==
  IF ~training /\ c.eval_noise = RInt(0) THEN Returned(action)
  ELSE IF c.expl = "additive_gaussian"
    THEN Returned(Clip(RAdd(action, RMul(ExplAmount(training, c, step), RInt(rnd.z)))))
  ELSE IF c.expl = "completely_random" THEN Returned(rnd.u)
  ELSE IF c.expl = "epsilon_greedy"
    THEN Returned(IF RLt(rnd.p, ExplAmount(training, c, step))
                    THEN (IF rnd.hot THEN RInt(1) ELSE RInt(0)) ELSE action)
  ELSE Raised

(* ------------------------------------------------------------------ *)
(* main                                                                *)
(* ------------------------------------------------------------------ *)
AgentVars == <<agent_step, train_last, log_last, once, last_log, metrics, cpc, call>>
SimVars == <<spc, sim, pendingAction, inflight>>

(* faulty variant: loading a checkpoint leaves the pretrain flag set *)
MainLoadKeepsPretrain ==
  /\ mpc = "init"
  /\ mpc' = "loop_test"
  /\ IF ckpt # None
       THEN agent_step' = ckpt /\ once' = once
       ELSE UNCHANGED <<agent_step, once>>
  /\ UNCHANGED <<tr, lr, fx, ctr, open_envs, cfg, mstep, disk, ckpt, train_last, log_last, last_log, metrics,
                 metricsLog, cpc, call, cstate>>
  /\ UNCHANGED SimVars

(* main, lines 710-714, with load, lines 261-263: load the checkpoint if
   there is one; loading consumes the pretrain flag *)
MainLoad ==
  /\ mpc = "init"
  /\ mpc' = "loop_test"
  /\ IF ckpt # None
       THEN agent_step' = ckpt /\ once' = FALSE
       ELSE UNCHANGED <<agent_step, once>>
  /\ UNCHANGED <<tr, lr, fx, ctr, open_envs, cfg, mstep, disk, ckpt, train_last, log_last, last_log, metrics,
                 metricsLog, cpc, call, cstate>>
  /\ UNCHANGED SimVars

(* main, lines 716-718: the loop test, then the evaluation rollout starts *)
MainEval ==
  /\ mpc = "loop_test"
  /\ mstep < steps
  /\ agent_step < MaxStep
  /\ mpc' = "eval"
  /\ spc' = "top"
  /\ sim' = [SimInit EXCEPT !.episodes = 1]
  /\ UNCHANGED <<tr, lr, fx, ctr, open_envs, cfg, mstep, disk, ckpt, metricsLog, cstate, pendingAction, inflight>>
  /\ UNCHANGED AgentVars

(* main, lines 716, 726-727: the loop exits and the environments are closed *)
MainClose ==
  /\ mpc = "loop_test"
  /\ mstep >= steps
  /\ mpc' = "done"
  /\ open_envs' = {}
  /\ UNCHANGED <<tr, lr, fx, ctr, cfg, mstep, disk, ckpt, metricsLog, cstate>>
  /\ UNCHANGED AgentVars
  /\ UNCHANGED SimVars

(* main, lines 719-722: evaluation returned, the collection rollout starts *)
MainCollect ==
  /\ mpc = "eval"
  /\ spc = "ret"
  /\ mpc' = "collect"
  /\ spc' = "top"
  /\ sim' = IF ~cstate.set
              THEN [SimInit EXCEPT !.steps = eval_every \div action_repeat]
              ELSE [SimInit EXCEPT !.steps = eval_every \div action_repeat,
                                   !.step = cstate.step,
                                   !.episode = cstate.episode,
                                   !.done = cstate.done,
                                   !.length = cstate.length,
                                   !.has_state = cstate.has_state]
  /\ UNCHANGED <<tr, lr, fx, ctr, open_envs, cfg, mstep, disk, ckpt, metricsLog, cstate, pendingAction, inflight>>
  /\ UNCHANGED AgentVars

(* faulty variant: the loop's step is taken from the agent's counter *)
MainCountReadsAgentStep ==
  /\ mpc = "collect"
  /\ spc = "ret"
  /\ cstate' = [set |-> TRUE, step |-> sim.step - sim.steps, episode |-> sim.episode - sim.episodes,
                done |-> sim.done, length |-> sim.length, has_state |-> sim.has_state]
  /\ mstep' = agent_step
  /\ mpc' = "save"
  /\ spc' = "off"
  /\ UNCHANGED <<tr, lr, fx, ctr, open_envs, cfg, disk, ckpt, metricsLog, sim, pendingAction, inflight>>
  /\ UNCHANGED AgentVars

(* main, lines 722-723: collection returned its state; the step count is
   read back from policy_datadir *)
MainCount ==
  /\ mpc = "collect"
  /\ spc = "ret"
  /\ cstate' = [set |-> TRUE, step |-> sim.step - sim.steps, episode |-> sim.episode - sim.episodes,
                done |-> sim.done, length |-> sim.length, has_state |-> sim.has_state]
  /\ mstep' = count_steps(disk)
  /\ mpc' = "save"
  /\ spc' = "off"
  /\ UNCHANGED <<tr, lr, fx, ctr, open_envs, cfg, disk, ckpt, metricsLog, sim, pendingAction, inflight>>
  /\ UNCHANGED AgentVars

(* faulty variant: the checkpoint is also written while the collection rollout runs *)
MainSaveDuringCollection ==
  /\ mpc \in {"save", "collect"}
  /\ ckpt' = agent_step
  /\ mpc' = IF mpc = "save" THEN "loop_test" ELSE mpc
  /\ UNCHANGED <<tr, lr, fx, ctr, open_envs, cfg, mstep, disk, metricsLog, cstate>>
  /\ UNCHANGED AgentVars
  /\ UNCHANGED SimVars

(* main, line 724: agent.save *)
MainSave ==
  /\ mpc = "save"
  /\ ckpt' = agent_step
  /\ mpc' = "loop_test"
  /\ UNCHANGED <<tr, lr, fx, ctr, open_envs, cfg, mstep, disk, metricsLog, cstate>>
  /\ UNCHANGED AgentVars
  /\ UNCHANGED SimVars

(* ------------------------------------------------------------------ *)
(* tools.simulate                                                      *)
(* ------------------------------------------------------------------ *)
SimRunning == (sim.steps > 0 /\ sim.step < sim.steps)
              \/ (sim.episodes > 0 /\ sim.episode < sim.episodes)

(* the while test; the envs whose done flag is set are reset and the agent
   is called with obs and reset = done *)
SimIterate ==
  /\ spc = "top"
  /\ IF SimRunning
       THEN /\ spc' = "agent"
            /\ cpc' = "enter"
            /\ call' = [NoCall EXCEPT !.training = (mpc = "collect")]
       ELSE /\ spc' = "ret"
            /\ UNCHANGED <<cpc, call>>
  /\ UNCHANGED <<tr, lr, fx, ctr, open_envs, cfg, mpc, mstep, disk, ckpt, agent_step, train_last, log_last, once,
                 last_log, metrics, metricsLog, sim, cstate, pendingAction, inflight>>

(* the selected actions are sent to every env (e.step(a, blocking=False)) *)
SimIssue ==
  /\ spc = "agent"
  /\ cpc = "idle"
  /\ pendingAction
  /\ pendingAction' = FALSE
  /\ inflight' = Envs
  /\ sim' = [sim EXCEPT !.k = 1, !.has_state = TRUE]
  /\ spc' = "collect"
  /\ UNCHANGED <<tr, lr, fx, ctr, open_envs, cfg, mpc, mstep, disk, ckpt, metricsLog, cstate>>
  /\ UNCHANGED AgentVars

(* one promise is resolved, in list order.  An episode that ends runs the
   Collect callbacks of make_env: save_episodes (train envs with store) and
   summarize_episode, which appends to metrics.jsonl *)
SimCollect ==
  /\ spc = "collect"
  /\ sim.k <= cfg.num_envs
  /\ \E d \in BOOLEAN :
       /\ (sim.length[sim.k] + 1 >= EpLimit) => d
       /\ sim' = [sim EXCEPT !.newdone[sim.k] = d, !.k = sim.k + 1]
       /\ IF d
            THEN LET prefix == IF mpc = "collect" THEN "train" ELSE "test"
                     d2 == StoreEpisode(prefix, cfg.store, disk, sim.length[sim.k] + 1)
                 IN /\ disk' = d2
                    /\ metricsLog' = Append(metricsLog, EpisodeRecord(prefix, d2))
            ELSE UNCHANGED <<disk, metricsLog>>
  /\ inflight' = inflight \ {sim.k}
  /\ UNCHANGED <<tr, lr, fx, ctr, open_envs, cfg, mpc, mstep, ckpt, spc, cstate, pendingAction>>
  /\ UNCHANGED AgentVars

RECURSIVE SumOver(_, _)
SumOver(f, S) == IF S = {} THEN 0
                 ELSE LET x == CHOOSE y \in S : TRUE IN f[x] + SumOver(f, S \ {x})

(* every result is in: episode, length and step are updated *)
SimUpdate ==
  /\ spc = "collect"
  /\ sim.k > cfg.num_envs
  /\ LET done == sim.newdone
         len1 == [e \in Envs |-> sim.length[e] + 1]
         ended == {e \in Envs : done[e]}
     IN sim' = [sim EXCEPT !.done = done,
                           !.episode = sim.episode + Cardinality(ended),
                           !.step = sim.step + SumOver(len1, ended),
                           !.length = [e \in Envs |-> IF done[e] THEN 0 ELSE len1[e]],
                           !.k = 0]
  /\ spc' = "top"
  /\ UNCHANGED <<tr, lr, fx, ctr, open_envs, cfg, mpc, mstep, disk, ckpt, metricsLog, cstate, pendingAction, inflight>>
  /\ UNCHANGED AgentVars

(* ------------------------------------------------------------------ *)
(* VMAIL.__call__                                                      *)
(* ------------------------------------------------------------------ *)
(* faulty variant: the action is selected on entry, before the training batch *)
AgentEnterSelectsFirst ==
  /\ cpc = "enter"
  /\ IF EveryFires(train_last, train_every, agent_step)
       THEN /\ train_last' = EveryLast(train_last, train_every, agent_step)
            /\ log_last' = EveryLast(log_last, log_every, agent_step)
            /\ once' = FALSE
            /\ call' = [call EXCEPT !.step = agent_step,
                          !.log = EveryFires(log_last, log_every, agent_step),
                          !.n = IF once THEN pretrain ELSE train_steps,
                          !.train_step = 0]
            /\ cpc' = "train"
       ELSE /\ call' = [call EXCEPT !.step = agent_step]
            /\ cpc' = "policy"
            /\ UNCHANGED <<train_last, log_last, once>>
  /\ pendingAction' = TRUE
  /\ UNCHANGED <<tr, lr, fx, ctr, open_envs, cfg, mpc, mstep, disk, ckpt, agent_step, last_log, metrics,
                 metricsLog, cstate, spc, sim, inflight>>

(* lines 152-161: read the counter, consult the schedules *)
AgentEnter ==
  /\ cpc = "enter"
  /\ IF EveryFires(train_last, train_every, agent_step)
       THEN /\ train_last' = EveryLast(train_last, train_every, agent_step)
            /\ log_last' = EveryLast(log_last, log_every, agent_step)
            /\ once' = FALSE
            /\ call' = [call EXCEPT !.step = agent_step,
                          !.log = EveryFires(log_last, log_every, agent_step),
                          !.n = IF once THEN pretrain ELSE train_steps,
                          !.train_step = 0]
            /\ cpc' = "train"
       ELSE /\ call' = [call EXCEPT !.step = agent_step]
            /\ cpc' = "policy"
            /\ UNCHANGED <<train_last, log_last, once>>
  /\ UNCHANGED <<tr, lr, fx, ctr, open_envs, cfg, mpc, mstep, disk, ckpt, agent_step, last_log, metrics, metricsLog,
                 cstate>>
  /\ UNCHANGED SimVars

(* faulty variant: a training step advances the step counter *)
AgentTrainAdvancesCounter ==
  /\ cpc = "train"
  /\ call.train_step < call.n
  /\ call' = [call EXCEPT !.train_step = call.train_step + 1,
                          !.log_images = log_images /\ call.log /\ call.train_step = 0]
  /\ agent_step' = agent_step + 1
  /\ metrics' = IF log_scalars
                  THEN update_state(metrics, TrainMetricNames, FlushCount(metricsLog))
                  ELSE metrics
  /\ UNCHANGED <<tr, lr, fx, ctr, open_envs, cfg, mpc, mstep, disk, ckpt, train_last, log_last, once,
                 last_log, metricsLog, cpc, cstate>>
  /\ UNCHANGED SimVars

(* lines 165-167 with _train, lines 377-379: one training step of the batch;
   replica 0 updates the running means *)
AgentTrain ==
  /\ cpc = "train"
  /\ call.train_step < call.n
  /\ call' = [call EXCEPT !.train_step = call.train_step + 1,
                          !.log_images = log_images /\ call.log /\ call.train_step = 0]
  /\ metrics' = IF log_scalars
                  THEN update_state(metrics, TrainMetricNames, FlushCount(metricsLog))
                  ELSE metrics
  /\ UNCHANGED <<tr, lr, fx, ctr, open_envs, cfg, mpc, mstep, disk, ckpt, agent_step, train_last, log_last, once,
                 last_log, metricsLog, cpc, cstate>>
  /\ UNCHANGED SimVars

(* lines 165-169: the batch is over *)
AgentTrainEnd ==
  /\ cpc = "train"
  /\ call.train_step >= call.n
  /\ cpc' = IF call.log THEN "flush" ELSE "policy"
  /\ UNCHANGED <<tr, lr, fx, ctr, open_envs, cfg, mpc, mstep, disk, ckpt, agent_step, train_last, log_last, once,
                 last_log, metrics, metricsLog, call, cstate>>
  /\ UNCHANGED SimVars

FlushRecord(step, m, withFps) ==
  [kind |-> "flush", step |-> step,
   keys |-> (DOMAIN m) \cup (IF withFps THEN {"fps"} ELSE {}),
   vals |-> m]

(* faulty variant: the log file is opened for writing, not for appending *)
WriteSummariesTruncates ==
  /\ cpc = "flush"
  /\ metricsLog' = <<FlushRecord(agent_step, metrics, last_log # None)>>
  /\ last_log' = agent_step
  /\ metrics' = reset_states(metrics)
  /\ cpc' = "policy"
  /\ UNCHANGED <<tr, lr, fx, ctr, open_envs, cfg, mpc, mstep, disk, ckpt, agent_step, train_last, log_last,
                 once, call, cstate>>
  /\ UNCHANGED SimVars

(* _write_summaries, lines 523-540 *)
WriteSummaries ==
  /\ cpc = "flush"
  /\ metricsLog' = Append(metricsLog, FlushRecord(agent_step, metrics, last_log # None))
  /\ last_log' = agent_step
  /\ metrics' = reset_states(metrics)
  /\ cpc' = "policy"
  /\ UNCHANGED <<tr, lr, fx, ctr, open_envs, cfg, mpc, mstep, disk, ckpt, agent_step, train_last, log_last, once,
                 call, cstate>>
  /\ UNCHANGED SimVars

(* faulty variant: the counter advances in evaluation calls too *)
AgentPolicyCountsEveryCall ==
  /\ cpc = "policy"
  /\ \E a \in ActionVals, rnd \in Rnd :
       LET res == exploration(RNorm(<<a, Unit>>), call.training, ExplConfig(cfg), rnd,
                              agent_step)
       IN IF res.raised
            THEN /\ mpc' = "crashed"
                 /\ spc' = "off"
                 /\ UNCHANGED <<pendingAction, agent_step, metrics>>
            ELSE /\ pendingAction' = TRUE
                 /\ agent_step' = agent_step + cfg.num_envs * action_repeat
                 /\ metrics' = IF call.training
                                 THEN update_state(metrics, {"expl_amount"},
                                                   FlushCount(metricsLog))
                                 ELSE metrics
                 /\ UNCHANGED <<mpc, spc>>
  /\ cpc' = "idle"
  /\ UNCHANGED <<tr, lr, fx, ctr, open_envs, cfg, mstep, disk, ckpt, train_last, log_last, once, last_log,
                 metricsLog, call, sim, cstate, inflight>>

(* lines 171-175 with policy, lines 194-202: the action is selected and, in
   training mode, the counter advances *)
AgentPolicy ==
  /\ cpc = "policy"
  /\ \E a \in ActionVals, rnd \in Rnd :
       LET res == exploration(RNorm(<<a, Unit>>), call.training, ExplConfig(cfg), rnd,
                              agent_step)
       IN IF res.raised
            THEN /\ mpc' = "crashed"
                 /\ spc' = "off"
                 /\ UNCHANGED <<pendingAction, agent_step, metrics>>
            ELSE /\ pendingAction' = TRUE
                 /\ agent_step' = IF call.training
                                    THEN agent_step + cfg.num_envs * action_repeat
                                    ELSE agent_step
                 /\ metrics' = IF call.training
                                 THEN update_state(metrics, {"expl_amount"},
                                                   FlushCount(metricsLog))
                                 ELSE metrics
                 /\ UNCHANGED <<mpc, spc>>
  /\ cpc' = "idle"
  /\ UNCHANGED <<tr, lr, fx, ctr, open_envs, cfg, mstep, disk, ckpt, train_last, log_last, once, last_log,
                 metricsLog, call, sim, cstate, inflight>>

Next ==
  \/ MainLoad
  \/ MainEval
  \/ MainClose
  \/ MainCollect
  \/ MainCount
  \/ MainSave
  \/ SimIterate
  \/ SimIssue
  \/ SimCollect
  \/ SimUpdate
  \/ AgentEnter
  \/ AgentTrain
  \/ AgentTrainEnd
  \/ WriteSummaries
  \/ AgentPolicy

Spec == Init /\ [][Next]_vars

(* ================================================================== *)
(* Properties of the control loop (specification Spec)                 *)
(* ================================================================== *)
Training == cpc \in {"train", "flush"}
CallReturns == cpc = "policy" /\ cpc' = "idle" /\ pendingAction'
FlushStep == cpc = "flush" /\ cpc' # "flush"

(* C1: training steps leave the step counter unchanged: from the entry of an
   agent call until its action is selected the counter equals the value read
   at entry, however many training steps ran; the counter only moves in the
   policy step of a training-mode call (or when a checkpoint is loaded). *)
C1_TrainingKeepsCounter ==
  /\ [](cpc \in {"train", "flush", "policy"} => agent_step = call.step)
  /\ [][(agent_step' # agent_step /\ mpc # "init")
          => (cpc = "policy" /\ call.training)]_vars

C1_Witness == cpc = "train" /\ call.train_step >= 2 /\ agent_step > 0

(* C2 as stated: every agent call that returns an action, in collection or
   in evaluation, advances the counter by num_envs * action_repeat. *)
C2_EveryCallAdvances ==
  [][CallReturns => agent_step' = agent_step + cfg.num_envs * action_repeat]_vars

(* C2 amended: a call in training mode (collection) advances the counter by
   num_envs * action_repeat; a call in evaluation mode leaves it unchanged. *)
C2_TrainingCallsAdvance ==
  [][CallReturns =>
       agent_step' = agent_step
                     + (IF call.training THEN cfg.num_envs * action_repeat ELSE 0)]_vars

C2_Witness ==
  /\ mpc = "collect" /\ spc = "agent" /\ cpc = "idle" /\ pendingAction
  /\ cfg.num_envs = 2
  /\ agent_step = call.step + 2 * action_repeat
  /\ sim.has_state

(* C3: while a training batch runs no environment step is in flight and no
   action has been selected for the next one (the batch sits between the
   return of the last step and the selection of the next action, inside the
   agent call); the loop enters collection only from evaluation and
   evaluation only from the loop test. *)
C3_NoOverlap ==
  /\ [](Training => (inflight = {} /\ ~pendingAction /\ spc = "agent"))
  /\ [][/\ (mpc' = "collect" /\ mpc # "collect") => mpc = "eval"
        /\ (mpc' = "eval" /\ mpc # "eval") => mpc = "loop_test"
        /\ (mpc = "eval" /\ mpc' # "eval") => mpc' \in {"collect", "crashed"}
        /\ (mpc = "collect" /\ mpc' # "collect") => mpc' \in {"save", "crashed"}
        /\ (mpc' = "loop_test" /\ mpc # "loop_test") => mpc \in {"init", "save"}]_vars

C3_Witness == cpc = "train" /\ mpc = "collect" /\ sim.has_state /\ call.train_step = 1

(* C6 as stated: with an unknown exploration variant no action is ever
   returned by the agent. *)
C6_UnknownVariantNeverActs == (cfg.expl \notin KnownExpl) => ~pendingAction

(* C6 amended: with an unknown variant the action selection raises whenever
   exploration is active (training mode, or evaluation with eval_noise
   nonzero) and then no action is returned; in evaluation with eval_noise = 0
   the action is returned and nothing is raised. *)
C6_UnknownVariantRaisesWhenExploring ==
  [][(cpc = "policy" /\ cfg.expl \notin KnownExpl) =>
       IF call.training \/ cfg.eval_noise # 0
         THEN mpc' = "crashed" /\ ~pendingAction'
         ELSE mpc' = mpc /\ pendingAction']_vars

C6_Witness == mpc = "crashed" /\ call.training /\ cfg.eval_noise = 0 /\ sim.step = 0

(* C7 as stated: every record of the metrics log is a flush record. *)
C7_OnlyFlushRecords == \A i \in 1..Len(metricsLog) : metricsLog[i].kind = "flush"

(* C7 amended: the log is append-only; a flush appends exactly one record,
   with the current step and one entry per metric name; every other record
   is an episode summary appended by summarize_episode. *)
C7_AppendOnlyLog ==
  [][/\ Len(metricsLog') >= Len(metricsLog)
     /\ SubSeq(metricsLog', 1, Len(metricsLog)) = metricsLog
     /\ FlushStep =>
          /\ Len(metricsLog') = Len(metricsLog) + 1
          /\ LET rec == metricsLog'[Len(metricsLog')]
             IN /\ rec.kind = "flush"
                /\ rec.step = agent_step
                /\ rec.keys \ {"fps"} = DOMAIN metrics
                /\ DOMAIN rec.vals = DOMAIN metrics
     /\ ~FlushStep =>
          \A i \in (Len(metricsLog) + 1)..Len(metricsLog') :
             metricsLog'[i].kind = "episode"]_vars

C7_Witness ==
  /\ Len(metricsLog) >= 3
  /\ metricsLog[1].kind = "flush"
  /\ metricsLog[2].kind = "episode"
  /\ metricsLog[Len(metricsLog)].kind = "flush"
  /\ "model_loss" \in metricsLog[Len(metricsLog)].keys

FlushesBefore(i) == Cardinality({j \in 1..(i - 1) : metricsLog[j].kind = "flush"})

(* C8: a flush resets every running mean, so the accumulator and every
   flushed record only hold updates made since the previous flush; a flush
   only happens in a call whose training batch ran with the log schedule
   firing. *)
C8_FlushClears ==
  /\ [](\A k \in DOMAIN metrics : metrics[k] \subseteq {FlushCount(metricsLog)})
  /\ [](\A i \in 1..Len(metricsLog) :
          metricsLog[i].kind = "flush" =>
            \A k \in DOMAIN metricsLog[i].vals :
               metricsLog[i].vals[k] \subseteq {FlushesBefore(i)})
  /\ [](cpc = "flush" => (call.log /\ call.train_step = call.n))
  /\ [][FlushStep => \A k \in DOMAIN metrics' : metrics'[k] = {}]_vars

C8_Witness ==
  /\ FlushCount(metricsLog) >= 2
  /\ metricsLog[Len(metricsLog)].kind = "flush"
  /\ metricsLog[Len(metricsLog)].vals["model_loss"] = {FlushCount(metricsLog) - 1}
  /\ metricsLog[Len(metricsLog)].vals["expl_amount"] = {FlushCount(metricsLog) - 1}

(* C9: the checkpoint is neither loaded nor saved while a training step is
   in progress: the load happens at most once, before the loop; the file is
   written only by the save that follows a collection phase that has
   returned, and the loop test comes next. *)
C9_CheckpointOutsideTraining ==
  /\ [](Training => mpc \in {"eval", "collect"})
  /\ [](mpc \in {"init", "save"} => (cpc = "idle" /\ spc = "off" /\ inflight = {}))
  /\ [][/\ mpc' = "init" => mpc = "init"
        /\ (mpc' = "save" /\ mpc # "save") => (mpc = "collect" /\ spc = "ret")
        /\ (mpc = "save" /\ mpc' # "save") => (mpc' = "loop_test" /\ ckpt' = agent_step)
        /\ ckpt' # ckpt => (mpc = "save" /\ cpc = "idle" /\ spc = "off")]_vars

C9_Witness == mpc = "loop_test" /\ cstate.set /\ ckpt = agent_step /\ agent_step > 2

BatchStarts == cpc = "enter" /\ cpc' = "train"
BatchEnds == cpc = "train" /\ cpc' # "train"
BatchStep == cpc = "train" /\ call'.train_step = call.train_step + 1

(* C19: a training batch runs pretrain steps only if it is the agent's first
   batch and no checkpoint was loaded (before the first batch nothing has
   been saved, so ckpt is the checkpoint main found at start); every other
   batch runs train_steps steps; a batch ends after exactly its n steps; and
   images are requested only for the first step of a batch whose log
   schedule fired. *)
C19_PretrainOnce ==
  /\ [][BatchStarts =>
          call'.n = (IF train_last = None /\ ckpt = None THEN pretrain
                     ELSE train_steps)]_vars
  /\ [][BatchEnds => call.train_step = call.n]_vars
  /\ [][BatchStep =>
          (call'.log_images <=> (log_images /\ call.log /\ call.train_step = 0))]_vars
  /\ [](call.log_images => (call.log /\ call.train_step = 1))

C19_Witness ==
  /\ cpc = "train" /\ mpc = "collect" /\ ckpt = None
  /\ call.n = train_steps /\ call.train_step = 1
  /\ call.log /\ call.log_images
  /\ Len(metricsLog) > 0 /\ metricsLog[1].kind = "flush"

(* The control loop with one environment and no evaluation noise, where
   main runs on without waiting for anything: a step that can be taken is
   eventually taken (specification SpecLive). *)
InitLive == Init /\ cfg.num_envs = 1 /\ cfg.eval_noise = 0

SpecLive == InitLive /\ [][Next]_vars /\ WF_vars(Next)

Done == mpc = "done"
Crashed == mpc = "crashed"
(* a collection phase has returned and policy_datadir holds no more steps
   than the loop's step, which still is the count of the phase before *)
NoNewStep == mpc = "collect" /\ spc = "ret" /\ count_steps(disk) <= mstep

MaxReplicas == 2
MaxTrainCalls == 2

Groups == {"model", "discriminator", "actor", "value"}
Losses == {"model_loss", "discriminator_loss", "actor_loss", "value_loss"}

(* the statements of _train in program order: the four losses under their
   gradient tapes, the four optimizer calls, the summaries *)
TrainOrderOptEarly ==
  <<"model_loss", "model_opt", "discriminator_loss", "actor_loss", "value_loss",
    "discriminator_opt", "actor_opt", "value_opt", "summaries">>

TrainOrder ==
  <<"model_loss", "discriminator_loss", "actor_loss", "value_loss",
    "model_opt", "discriminator_opt", "actor_opt", "value_opt", "summaries">>

TrainEnd == Len(TrainOrder) + 1

(* the parameter groups a loss is computed from *)
Reads(loss) ==
  CASE loss = "model_loss" -> {"model"}
    [] loss = "discriminator_loss" -> {"model", "actor", "discriminator"}
    [] loss = "actor_loss" -> {"model", "actor", "discriminator", "value"}
    [] loss = "value_loss" -> {"model", "actor", "discriminator", "value"}

(* _build_model: the group each optimizer owns *)
OptGroup(stmt) ==
  CASE stmt = "model_opt" -> "model"
    [] stmt = "discriminator_opt" -> "discriminator"
    [] stmt = "actor_opt" -> "actor"
    [] stmt = "value_opt" -> "value"

(* faulty variant: every replica writes the summaries *)
IsLoggingReplicaAny(r) == TRUE

(* _train, line 377: replica_id_in_sync_group == 0 *)
IsLoggingReplica(r) == r = 0

Replicas == 0..(tr.n - 1)
Stmt(r) == TrainOrder[tr.pos[r]]

MainOff ==
  /\ cfg = [num_envs |-> 1, expl |-> "additive_gaussian", eval_noise |-> 0, store |-> TRUE]
  /\ mpc = "off"
  /\ open_envs = {}
  /\ mstep = 0
  /\ disk = 0
  /\ ckpt = None
  /\ agent_step = 0
  /\ train_last = None
  /\ log_last = None
  /\ once = TRUE
  /\ last_log = None
  /\ metrics = [k \in {"expl_amount"} |-> {}]
  /\ metricsLog = << >>
  /\ cpc = "idle"
  /\ call = NoCall
  /\ spc = "off"
  /\ sim = SimInit
  /\ cstate = [set |-> FALSE]
  /\ pendingAction = FALSE
  /\ inflight = {}

MainVars == <<open_envs, cfg, mpc, mstep, disk, ckpt, agent_step, train_last, log_last, once,
              last_log, metrics, metricsLog, cpc, call, spc, sim, cstate,
              pendingAction, inflight>>

InitTrain ==
  /\ MainOff
  /\ lr = LrOff
  /\ fx = FxOff
  /\ ctr = CtrOff
  /\ \E n \in 1..MaxReplicas, ls \in BOOLEAN :
       tr = [phase |-> "idle", n |-> n, log_scalars |-> ls, log_images |-> FALSE,
             calls |-> 0,
             params |-> [g \in Groups |-> 0],
             entry |-> [g \in Groups |-> 0],
             pos |-> [r \in 0..(n - 1) |-> TrainEnd],
             read |-> [r \in 0..(n - 1) |-> [l \in Losses |-> << >>]],
             arrived |-> [g \in Groups |-> {}],
             applied |-> [g \in Groups |-> 0],
             scalars |-> [r \in 0..(n - 1) |-> 0],
             images |-> [r \in 0..(n - 1) |-> 0]]

(* train, lines 266-268: strategy.run starts _train on every replica *)
TrainCall ==
  /\ tr.phase = "idle"
  /\ tr.calls < MaxTrainCalls
  /\ \E li \in BOOLEAN :
       tr' = [tr EXCEPT !.phase = "running", !.log_images = li,
                        !.entry = tr.params,
                        !.pos = [r \in Replicas |-> 1],
                        !.read = [r \in Replicas |-> [l \in Losses |-> << >>]],
                        !.arrived = [g \in Groups |-> {}],
                        !.applied = [g \in Groups |-> 0],
                        !.scalars = [r \in Replicas |-> 0],
                        !.images = [r \in Replicas |-> 0]]
  /\ UNCHANGED <<lr, fx, ctr, MainVars>>

(* _train, lines 277-370: a replica computes its next loss from the current
   mirrored parameters *)
ReplicaLoss(r) ==
  /\ tr.phase = "running"
  /\ tr.pos[r] < TrainEnd
  /\ Stmt(r) \in Losses
  /\ tr' = [tr EXCEPT !.read[r][Stmt(r)] = [g \in Reads(Stmt(r)) |-> tr.params[g]],
                      !.pos[r] = tr.pos[r] + 1]
  /\ UNCHANGED <<lr, fx, ctr, MainVars>>

(* _train, lines 372-375: a replica hands its gradients to an optimizer; the
   update is applied to the mirrored parameters once every replica has *)
ReplicaOptArrive(r) ==
  /\ tr.phase = "running"
  /\ tr.pos[r] < TrainEnd
  /\ Stmt(r) \notin Losses /\ Stmt(r) # "summaries"
  /\ LET g == OptGroup(Stmt(r))
         all == tr.arrived[g] \cup {r} = Replicas
     IN /\ r \notin tr.arrived[g]
        /\ tr' = [tr EXCEPT !.arrived[g] = tr.arrived[g] \cup {r},
                            !.params[g] = IF all THEN tr.params[g] + 1 ELSE tr.params[g],
                            !.applied[g] = IF all THEN tr.applied[g] + 1
                                           ELSE tr.applied[g]]
  /\ UNCHANGED <<lr, fx, ctr, MainVars>>

(* the optimizer call returns on a replica once the update is applied *)
ReplicaOptReturn(r) ==
  /\ tr.phase = "running"
  /\ tr.pos[r] < TrainEnd
  /\ Stmt(r) \notin Losses /\ Stmt(r) # "summaries"
  /\ tr.arrived[OptGroup(Stmt(r))] = Replicas
  /\ tr' = [tr EXCEPT !.pos[r] = tr.pos[r] + 1]
  /\ UNCHANGED <<lr, fx, ctr, MainVars>>

(* _train, lines 377-382: the summaries, on the logging replica only *)
ReplicaSummaries(r) ==
  /\ tr.phase = "running"
  /\ tr.pos[r] < TrainEnd
  /\ Stmt(r) = "summaries"
  /\ tr' = [tr EXCEPT
              !.scalars[r] = IF IsLoggingReplica(r) /\ tr.log_scalars
                               THEN tr.scalars[r] + 1 ELSE tr.scalars[r],
              !.images[r] = IF IsLoggingReplica(r) /\ tr.log_images
                              THEN tr.images[r] + 1 ELSE tr.images[r],
              !.pos[r] = tr.pos[r] + 1]
  /\ UNCHANGED <<lr, fx, ctr, MainVars>>

(* strategy.run returns when every replica has finished *)
TrainReturn ==
  /\ tr.phase = "running"
  /\ \A r \in Replicas : tr.pos[r] = TrainEnd
  /\ tr' = [tr EXCEPT !.phase = "idle", !.calls = tr.calls + 1]
  /\ UNCHANGED <<lr, fx, ctr, MainVars>>

NextTrain ==
  \/ TrainCall
  \/ \E r \in Replicas : ReplicaLoss(r)
  \/ \E r \in Replicas : ReplicaOptArrive(r)
  \/ \E r \in Replicas : ReplicaOptReturn(r)
  \/ \E r \in Replicas : ReplicaSummaries(r)
  \/ TrainReturn

SpecTrain == InitTrain /\ [][NextTrain]_vars

StepDone == tr.phase = "running" /\ \A r \in Replicas : tr.pos[r] = TrainEnd

(* C4: in one training step every optimizer is applied exactly once, only
   after every replica computed all four losses, and every loss was computed
   from the parameter values of step entry. *)
C4_OneUpdatePerStep ==
  tr.phase = "running" =>
    /\ \A g \in Groups :
         /\ tr.applied[g] <= 1
         /\ tr.params[g] = tr.entry[g] + tr.applied[g]
         /\ tr.applied[g] = 1 =>
              \A r \in Replicas : \A l \in Losses : tr.read[r][l] # << >>
    /\ \A r \in Replicas : \A l \in Losses :
         tr.read[r][l] # << >> =>
           \A g \in DOMAIN tr.read[r][l] : tr.read[r][l][g] = tr.entry[g]
    /\ StepDone => \A g \in Groups : tr.applied[g] = 1

C4_Witness ==
  /\ StepDone /\ tr.n = 2 /\ tr.calls = 1
  /\ \A g \in Groups : tr.params[g] = 2 /\ tr.entry[g] = 1

(* C5: the summaries of a mirrored step are written by replica 0 alone: no
   other replica updates the metrics or writes images, and when the step is
   over replica 0 has written each enabled summary exactly once. *)
C5_OnlyReplicaZeroLogs ==
  tr.phase = "running" =>
    /\ \A r \in Replicas \ {0} : tr.scalars[r] = 0 /\ tr.images[r] = 0
    /\ StepDone =>
         /\ tr.scalars[0] = (IF tr.log_scalars THEN 1 ELSE 0)
         /\ tr.images[0] = (IF tr.log_images THEN 1 ELSE 0)

C5_Witness ==
  /\ StepDone /\ tr.n = 2 /\ tr.log_scalars /\ tr.log_images
  /\ tr.scalars[0] = 1 /\ tr.images[0] = 1

(* ================================================================== *)
(* The return computation of _train, lines 353-360 (specification      *)
(* SpecReturn).                                                        *)
(* ================================================================== *)
MaxHorizon == 4

Most(q) == SubSeq(q, 1, Len(q) - 1)

Discounts == {<<9, 10>>, <<1, 2>>}
RewardVals == {0, 1}
ValueVals == {0, 2}
disclam == <<19, 20>>

(* tools.lambda_return: inputs = reward + pcont * next_values * (1 - lambda),
   then the reverse scan agg = inputs[t] + pcont[t] * lambda * agg that starts
   from the boundary value at the last step; its outputs, last step first,
   are put back in time order *)
RECURSIVE LambdaScan(_, _, _, _, _)
LambdaScan(inputs, pcont, lambda_, agg, t) ==
  IF t = 0 THEN << >>
  ELSE LET cur == RAdd(inputs[t], RMul(RMul(pcont[t], lambda_), agg))
       IN <<cur>> \o LambdaScan(inputs, pcont, lambda_, cur, t - 1)

Reverse(q) == [i \in 1..Len(q) |-> q[Len(q) + 1 - i]]

lambda_return(reward, value, pcont, bootstrap, lambda_) ==
  LET n == Len(reward)
      next_values == Tail(value) \o <<bootstrap>>
      inputs == [t \in 1..n |->
                   RAdd(reward[t],
                        RMul(RMul(pcont[t], next_values[t]), RSub(RInt(1), lambda_)))]
  IN Reverse(LambdaScan(inputs, pcont, lambda_, bootstrap, n))

(* the boundary lambda_return uses when no bootstrap is passed: zero, or the
   value estimate of the last step passed in *)
Boundaries(value) == {RInt(0), value[Len(value)]}

(* faulty variant: the return is computed with lambda = disclam *)
TrainReturnsDisclam(reward, value, pcont, boundary) ==
  lambda_return(Most(reward), Most(value), Most(pcont), boundary, disclam)

(* _train, line 360: the last step is dropped from reward, value and pcont,
   no bootstrap is passed and lambda is 1.0 *)
TrainReturns(reward, value, pcont, boundary) ==
  lambda_return(Most(reward), Most(value), Most(pcont), boundary, RInt(1))

(* _train, lines 354-357: without a continuation predictor pcont is the
   discount broadcast to the shape of reward *)
Pcont(discount, reward) == [t \in 1..Len(reward) |-> discount]

InitReturn ==
  /\ MainOff
  /\ tr = TrOff
  /\ fx = FxOff
  /\ ctr = CtrOff
  /\ \E h \in 2..MaxHorizon :
       \E reward \in [1..h -> RewardVals], value \in [1..h -> ValueVals],
          discount \in Discounts :
         lr = [phase |-> "input", horizon |-> h,
               reward |-> [t \in 1..h |-> RInt(reward[t])],
               value |-> [t \in 1..h |-> RInt(value[t])],
               discount |-> discount, boundary |-> RInt(0), returns |-> << >>]

(* the training step computes the returns of the imagined rollout *)
ComputeReturns ==
  /\ lr.phase = "input"
  /\ \E b \in Boundaries(Most(lr.value)) :
       lr' = [lr EXCEPT !.phase = "done", !.boundary = b,
                        !.returns = TrainReturns(lr.reward, lr.value,
                                                 Pcont(lr.discount, lr.reward), b)]
  /\ UNCHANGED <<tr, fx, ctr, MainVars>>

NextReturn == ComputeReturns

SpecReturn == InitReturn /\ [][NextReturn]_vars

RECURSIVE DiscountedSum(_, _, _)
(* sum over t < k of gamma^t * r_t, rewards taken from index 0 *)
DiscountedSum(r, gamma, k) ==
  IF k = 0 THEN RInt(0)
  ELSE RAdd(DiscountedSum(r, gamma, k - 1), RMul(RPow(gamma, k - 1), r[k]))

(* C10: with lambda = 1 and a constant discount the return of the first step
   is the discounted sum of the rewards plus gamma^n times the boundary
   value, every return is r_t + gamma * return_{t+1}, and rewards [1,1,1]
   with gamma = 0.9 and boundary 0 give 2.71. *)
C10_DiscountedSum ==
  lr.phase = "done" =>
    LET r == Most(lr.reward)
        n == Len(r)
        g == lr.discount
        v == lr.boundary
        ret == lr.returns
    IN /\ Len(ret) = n
       /\ REq(ret[1], RAdd(DiscountedSum(r, g, n), RMul(RPow(g, n), v)))
       /\ \A t \in 1..n :
            REq(ret[t], RAdd(r[t], RMul(g, IF t = n THEN v ELSE ret[t + 1])))
       /\ (n = 3 /\ (\A t \in 1..n : r[t] = RInt(1)) /\ g = <<9, 10>> /\ v = RInt(0))
            => REq(ret[1], <<271, 100>>)

C10_Witness ==
  /\ lr.phase = "done"
  /\ lr.horizon = 4
  /\ \A t \in 1..3 : lr.reward[t] = RInt(1)
  /\ lr.discount = <<9, 10>>
  /\ lr.boundary = RInt(0)
  /\ lr.value[2] = RInt(2)
  /\ REq(lr.returns[1], <<271, 100>>)

(* ================================================================== *)
(* The discount weights of the actor and value losses, _train lines    *)
(* 353-370 (specification SpecWeights).                                *)
(* ================================================================== *)
Min(a, b) == IF a < b THEN a ELSE b
Max(a, b) == IF a > b THEN a ELSE b

(* the slices q[:k] and q[:-k] of a tensor along its first axis *)
Take(q, k) == SubSeq(q, 1, Min(k, Len(q)))
DropLast(q, k) == SubSeq(q, 1, Max(Len(q) - k, 0))

ones_like(q) == [t \in 1..Len(q) |-> RInt(1)]

(* tf.math.cumprod along axis 0 *)
RECURSIVE cumprod(_)
cumprod(q) ==
  IF q = << >> THEN << >>
  ELSE LET prev == cumprod(Most(q))
       IN prev \o <<IF prev = << >> THEN q[1]
                    ELSE RMul(prev[Len(prev)], q[Len(q)])>>

(* faulty variant: the product starts at pcont_0, without the leading one *)
TrainDiscountNoLeadingOne(pcont) == cumprod(Most(pcont))

(* _train, line 362 *)
TrainDiscount(pcont) == cumprod(ones_like(Take(pcont, 1)) \o DropLast(pcont, 2))

(* _train, lines 354-357: pcont is the continuation predictor's means when
   config.pcont is set, the broadcast discount otherwise *)
InitWeights ==
  /\ MainOff
  /\ tr = TrOff
  /\ lr = LrOff
  /\ ctr = CtrOff
  /\ \E h \in 2..MaxHorizon :
       \E reward \in [1..h -> RewardVals], v \in ValueVals, use_pcont \in BOOLEAN,
          d \in Discounts :
         \E pcont \in IF use_pcont THEN [1..h -> Discounts]
                      ELSE {Pcont(d, [t \in 1..h |-> 0])} :
           fx = [op |-> "discount", phase |-> "input", horizon |-> h,
                 use_pcont |-> use_pcont, gamma |-> d,
                 reward |-> [t \in 1..h |-> RInt(reward[t])],
                 value |-> [t \in 1..h |-> RInt(v)],
                 pcont |-> pcont, returns |-> << >>, discount |-> << >>]

(* _train, lines 360-362: the returns and their discount weights *)
ComputeWeights ==
  /\ fx.phase = "input"
  /\ fx' = [fx EXCEPT !.phase = "done",
                      !.returns = TrainReturns(fx.reward, fx.value, fx.pcont, RInt(0)),
                      !.discount = TrainDiscount(fx.pcont)]
  /\ UNCHANGED <<tr, lr, ctr, MainVars>>

NextWeights == ComputeWeights

SpecWeights == InitWeights /\ [][NextWeights]_vars

RECURSIVE Product(_, _)
(* pcont_0 * ... * pcont_{k-1}, the empty product being 1 *)
Product(p, k) == IF k = 0 THEN RInt(1) ELSE RMul(Product(p, k - 1), p[k])

(* C11: the discount weights have one entry per entry of the returns, the
   first weight is 1 and weight_t is pcont_0 * ... * pcont_{t-1}, which is
   gamma^t when pcont is the constant discount, for every horizon >= 2. *)
C11_DiscountWeights ==
  (fx.op = "discount" /\ fx.phase = "done") =>
    LET w == fx.discount
    IN /\ Len(w) = Len(fx.returns)
       /\ Len(w) = fx.horizon - 1
       /\ w[1] = RInt(1)
       /\ \A t \in 1..Len(w) :
            /\ REq(w[t], Product(fx.pcont, t - 1))
            /\ ~fx.use_pcont => REq(w[t], RPow(fx.gamma, t - 1))

C11_Witness ==
  /\ fx.op = "discount" /\ fx.phase = "done"
  /\ fx.horizon = 4 /\ fx.use_pcont
  /\ fx.pcont = <<(<<9, 10>>), (<<1, 2>>), (<<1, 2>>), (<<9, 10>>)>>
  /\ fx.discount = <<(<<1, 1>>), (<<9, 10>>), (<<9, 20>>)>>
  /\ Len(fx.returns) = 3

(* ================================================================== *)
(* The imagination rollout, _imagine_ahead lines 441-477               *)
(* (specification SpecImagine).  A latent state and an action are      *)
(* small integers; a tensor of shape [B, L] is a sequence of B rows.   *)
(* ================================================================== *)
MaxBatch == 2
MaxLength == 3

LatentIds == 0..4
ActionIds == 0..2
SampleNoise == {0, 1}

(* the actor's sample on a latent state, for one draw of its noise *)
ActorSample(state, z) == (state + z) % Cardinality(ActionIds)
ActorSupport(state) == {ActorSample(state, z) : z \in SampleNoise}

(* dynamics_model.img_step: the prior state that follows a state and an action *)
img_step(state, action) == (2 * state + action + 1) % Cardinality(LatentIds)

(* faulty variant: the last timestep of the posterior is kept *)
TrimLastKeepsAll(post) == post

(* _imagine_ahead, line 447: v[:, :-1] *)
TrimLast(post) == [b \in DOMAIN post |-> Most(post[b])]

(* _imagine_ahead, lines 450-451: tf.reshape(x, [-1] + x.shape[2:]) puts
   the rows one after the other *)
RECURSIVE flatten(_)
flatten(x) == IF x = << >> THEN << >> ELSE Head(x) \o flatten(Tail(x))

(* _imagine_ahead, line 453: one sample per seed, the draws differing
   from seed to seed *)
policy(state, z) == [i \in DOMAIN state |-> ActorSample(state[i], (z + i) % 2)]

InitImagine ==
  /\ MainOff
  /\ tr = TrOff
  /\ lr = LrOff
  /\ ctr = CtrOff
  /\ \E B \in 1..MaxBatch, L \in 2..MaxLength, H \in 1..MaxHorizon, s \in LatentIds :
       fx = [op |-> "imagine", phase |-> "input", B |-> B, L |-> L, horizon |-> H,
             post |-> [b \in 1..B |->
                         [t \in 1..L |-> (s + b * L + t) % Cardinality(LatentIds)]],
             last_state |-> << >>, outputs |-> << >>, actions |-> << >>, index |-> 0]

(* _imagine_ahead, lines 447-461: the seeds, and the outputs that start
   with them *)
ImagineStart ==
  /\ fx.phase = "input"
  /\ LET start_state == flatten(TrimLast(fx.post))
     IN fx' = [fx EXCEPT !.phase = "loop", !.last_state = start_state,
                         !.outputs = <<start_state>>]
  /\ UNCHANGED <<tr, lr, ctr, MainVars>>

(* _imagine_ahead, lines 463-467: one iteration of the loop over the horizon *)
ImagineStep ==
  /\ fx.phase = "loop"
  /\ fx.index < fx.horizon
  /\ \E z \in SampleNoise :
       LET action == policy(fx.last_state, z)
           next == [i \in DOMAIN fx.last_state |->
                      img_step(fx.last_state[i], action[i])]
       IN fx' = [fx EXCEPT !.index = @ + 1, !.last_state = next,
                           !.outputs = Append(@, next),
                           !.actions = Append(@, action)]
  /\ UNCHANGED <<tr, lr, ctr, MainVars>>

(* _imagine_ahead, lines 470-477: the stacked states and actions are returned *)
ImagineReturn ==
  /\ fx.phase = "loop"
  /\ fx.index = fx.horizon
  /\ fx' = [fx EXCEPT !.phase = "done"]
  /\ UNCHANGED <<tr, lr, ctr, MainVars>>

NextImagine == ImagineStart \/ ImagineStep \/ ImagineReturn

SpecImagine == InitImagine /\ [][NextImagine]_vars

(* C12: the rollout is seeded with the B*(L-1) posterior states that are not
   the last of their trajectory, in trajectory order, and returns H+1 states
   and H actions per seed: state 0 is the seed, action k is a sample of the
   actor on state k and state k+1 is img_step(state k, action k). *)
C12_ImagineShapes ==
  (fx.op = "imagine" /\ fx.phase = "done") =>
    LET n == fx.B * (fx.L - 1)
        states == fx.outputs
    IN /\ Len(states) = fx.horizon + 1
       /\ Len(fx.actions) = fx.horizon
       /\ \A k \in 1..(fx.horizon + 1) : Len(states[k]) = n
       /\ \A k \in 1..fx.horizon : Len(fx.actions[k]) = n
       /\ \A b \in 1..fx.B : \A t \in 1..(fx.L - 1) :
            states[1][(b - 1) * (fx.L - 1) + t] = fx.post[b][t]
       /\ \A k \in 1..fx.horizon : \A i \in 1..n :
            /\ fx.actions[k][i] \in ActorSupport(states[k][i])
            /\ states[k + 1][i] = img_step(states[k][i], fx.actions[k][i])

C12_Witness ==
  /\ fx.op = "imagine" /\ fx.phase = "done"
  /\ fx.B = 2 /\ fx.L = 3 /\ fx.horizon = 3
  /\ Len(fx.outputs) = 4 /\ Len(fx.actions) = 3
  /\ Len(fx.outputs[4]) = 4
  /\ fx.outputs[1] # fx.outputs[2]

(* ================================================================== *)
(* The discriminator's expert inputs, _train lines 325-335             *)
(* (specification SpecExpert).  An entry of the expert batch carries   *)
(* its trajectory b and its timestep t, counted from 0.                *)
(* ================================================================== *)
FeatureVals == 0..2
ExpertActionVals == {0, 1}

(* x[:, 1:] *)
DropFirst(x) == [b \in DOMAIN x |-> Tail(x[b])]

(* tf.concat([x, y], axis=-1) of two tensors of the same leading shape *)
concat_last(x, y) ==
  [b \in DOMAIN x |-> [t \in DOMAIN x[b] |-> <<x[b][t], y[b][t]>>]]

(* faulty variant: the actions are not shifted *)
ExpertPairsUnshifted(feat_expert, action) ==
  concat_last(TrimLast(feat_expert), TrimLast(action))

(* _train, line 328 *)
ExpertPairs(feat_expert, action) ==
  concat_last(TrimLast(feat_expert), DropFirst(action))

InitExpert ==
  /\ MainOff
  /\ tr = TrOff
  /\ lr = LrOff
  /\ ctr = CtrOff
  /\ \E B \in 1..MaxBatch, L \in 2..MaxLength, s \in FeatureVals :
       \E a \in [(1..B) \X (1..L) -> ExpertActionVals] :
         fx = [op |-> "expert", phase |-> "input", B |-> B, L |-> L,
               feat_expert |-> [b \in 1..B |-> [t \in 1..L |->
                  [kind |-> "feature", b |-> b, t |-> t - 1,
                   v |-> (s + t) % Cardinality(FeatureVals)]]],
               action |-> [b \in 1..B |-> [t \in 1..L |->
                  [kind |-> "action", b |-> b, t |-> t - 1, v |-> a[<<b, t>>]]]],
               feat_expert_dist |-> << >>]

(* _train, line 328: the expert inputs of the discriminator *)
ComputeExpertPairs ==
  /\ fx.phase = "input"
  /\ fx' = [fx EXCEPT !.phase = "done",
                      !.feat_expert_dist = ExpertPairs(fx.feat_expert, fx.action)]
  /\ UNCHANGED <<tr, lr, ctr, MainVars>>

NextExpert == ComputeExpertPairs

SpecExpert == InitExpert /\ [][NextExpert]_vars

(* C13: for every expert trajectory the discriminator input at index t in
   0..L-2 is (feature_t, action_{t+1}); there are exactly L-1 inputs per
   trajectory and neither feature_{L-1} nor action_0 is part of any input. *)
C13_ExpertPairsShifted ==
  (fx.op = "expert" /\ fx.phase = "done") =>
    LET d == fx.feat_expert_dist
    IN /\ Len(d) = fx.B
       /\ \A b \in 1..fx.B :
            /\ Len(d[b]) = fx.L - 1
            /\ \A t \in 0..(fx.L - 2) :
                 d[b][t + 1] = <<fx.feat_expert[b][t + 1], fx.action[b][t + 2]>>
            /\ \A c \in 1..fx.B : \A t \in 1..Len(d[c]) :
                 /\ d[c][t][1] # fx.feat_expert[b][fx.L]
                 /\ d[c][t][2] # fx.action[b][1]

C13_Witness ==
  /\ fx.op = "expert" /\ fx.phase = "done"
  /\ fx.B = 2 /\ fx.L = 3
  /\ Len(fx.feat_expert_dist[2]) = 2
  /\ fx.feat_expert_dist[2][2][1].t = 1
  /\ fx.feat_expert_dist[2][2][2].t = 2
  /\ fx.action[2][2].v # fx.action[2][3].v

(* ================================================================== *)
(* The model loss and the discriminator loss of one replica, _train    *)
(* lines 305-314 and 334-351 (specification SpecLoss).                 *)
(* ================================================================== *)
RECURSIVE RSum(_)
RSum(q) == IF q = << >> THEN RInt(0) ELSE RAdd(Head(q), RSum(Tail(q)))

(* tf.reduce_mean *)
reduce_mean(q) == RDivInt(RSum(q), Len(q))

KLVals == {<<0, 1>>, <<5, 2>>, <<7, 2>>}
FreeNats == {<<0, 1>>, <<3, 1>>}
KLScales == {<<1, 1>>, <<2, 1>>}
LikeSums == {<<-4, 1>>, <<-1, 2>>}
LogProbs == {<<-2, 1>>, <<-1, 4>>}
Alphas == {<<1, 1>>, <<1, 2>>}
Norms == {<<0, 1>>, <<1, 2>>, <<1, 1>>, <<2, 1>>}

(* faulty variant: the floor is applied as a ceiling *)
DivergenceMin(kl, free_nats) == RMin(reduce_mean(kl), free_nats)

(* _train, lines 310-311 *)
Divergence(kl, free_nats) == RMax(reduce_mean(kl), free_nats)

(* _train, lines 313-314 *)
ModelLoss(kl_scale, div, likes, n) ==
  RDivInt(RSub(RMul(kl_scale, div), likes), n)

(* faulty variant: the distance to 1 is not squared *)
GradPenaltySigned(norm) == RSub(norm, RInt(1))

(* _train, line 348 *)
GradPenalty(norm) == RMul(RSub(norm, RInt(1)), RSub(norm, RInt(1)))

(* faulty variant: the penalty is added without its weight *)
DiscriminatorLossUnweighted(expert_loss, policy_loss, alpha, grad_penalty, n) ==
  RDivInt(RAdd(RNeg(RAdd(expert_loss, policy_loss)), grad_penalty), n)

(* _train, lines 350-351 *)
DiscriminatorLoss(expert_loss, policy_loss, alpha, grad_penalty, n) ==
  RDivInt(RAdd(RNeg(RAdd(expert_loss, policy_loss)), RMul(alpha, grad_penalty)), n)

InitLoss ==
  /\ MainOff
  /\ tr = TrOff
  /\ lr = LrOff
  /\ ctr = CtrOff
  /\ \E kl \in [1..2 -> KLVals], free_nats \in FreeNats, kl_scale \in KLScales,
        likes \in LikeSums, expert_loss \in LogProbs, policy_loss \in LogProbs,
        alpha \in Alphas, norm \in Norms, n \in 1..MaxReplicas :
       fx = [op |-> "loss", phase |-> "input", num_replicas |-> n,
             kl |-> kl, free_nats |-> free_nats, kl_scale |-> kl_scale,
             likes |-> likes, expert_loss |-> expert_loss,
             policy_loss |-> policy_loss, alpha |-> alpha, norm |-> norm,
             div |-> RInt(0), model_loss |-> RInt(0), grad_penalty |-> RInt(0),
             discriminator_loss |-> RInt(0)]

(* _train, lines 310-314 and 348-351: the losses one replica hands to the
   model and the discriminator optimizers (lines 372-373) *)
ComputeLosses ==
  /\ fx.phase = "input"
  /\ LET div == Divergence(fx.kl, fx.free_nats)
         grad_penalty == GradPenalty(fx.norm)
     IN fx' = [fx EXCEPT
                 !.phase = "done",
                 !.div = div,
                 !.model_loss = ModelLoss(fx.kl_scale, div, fx.likes, fx.num_replicas),
                 !.grad_penalty = grad_penalty,
                 !.discriminator_loss =
                    DiscriminatorLoss(fx.expert_loss, fx.policy_loss, fx.alpha,
                                      grad_penalty, fx.num_replicas)]
  /\ UNCHANGED <<tr, lr, ctr, MainVars>>

NextLoss == ComputeLosses

SpecLoss == InitLoss /\ [][NextLoss]_vars

LossDone == fx.op = "loss" /\ fx.phase = "done"

(* -(expert_term + policy_term) + alpha * penalty *)
UnscaledDiscriminatorLoss ==
  RAdd(RNeg(RAdd(fx.expert_loss, fx.policy_loss)), RMul(fx.alpha, fx.grad_penalty))

(* C14 as stated: the discriminator loss handed to the optimizer equals
   -(expert_term + policy_term) + alpha * penalty for every replica count. *)
C14_LossIsUnscaled ==
  LossDone => REq(fx.discriminator_loss, UnscaledDiscriminatorLoss)

(* C14: the discriminator loss handed to the optimizer is
   (-(expert_term + policy_term) + alpha * penalty) divided by the number of
   replicas in sync, so it equals the undivided sum with a single replica. *)
C14_LossDividedByReplicas ==
  LossDone =>
    /\ REq(RMul(fx.discriminator_loss, RInt(fx.num_replicas)),
           UnscaledDiscriminatorLoss)
    /\ fx.num_replicas = 1 => REq(fx.discriminator_loss, UnscaledDiscriminatorLoss)

C14_Witness ==
  /\ LossDone
  /\ fx.num_replicas = 2
  /\ fx.expert_loss = <<-2, 1>> /\ fx.policy_loss = <<-1, 4>>
  /\ fx.alpha = <<1, 2>> /\ fx.norm = <<2, 1>>
  /\ fx.discriminator_loss = <<11, 8>>

(* C15: the divergence that enters the model loss is max(mean KL, free_nats)
   and so never below free_nats; when the mean KL is below the floor the KL
   term of the loss is exactly kl_scale * free_nats. *)
C15_DivergenceFloor ==
  LossDone =>
    LET mean == reduce_mean(fx.kl)
    IN /\ RLe(fx.free_nats, fx.div)
       /\ RLe(mean, fx.div)
       /\ fx.div \in {RNorm(mean), fx.free_nats}
       /\ RLt(mean, fx.free_nats) =>
            /\ fx.div = fx.free_nats
            /\ REq(RAdd(RMul(fx.model_loss, RInt(fx.num_replicas)), fx.likes),
                   RMul(fx.kl_scale, fx.free_nats))

C15_Witness ==
  /\ LossDone
  /\ fx.kl = <<(<<0, 1>>), (<<5, 2>>)>>
  /\ fx.free_nats = <<3, 1>> /\ fx.kl_scale = <<2, 1>>
  /\ fx.div = <<3, 1>>
  /\ fx.num_replicas = 1 /\ fx.likes = <<-4, 1>> /\ fx.model_loss = <<10, 1>>

(* C16: the gradient penalty is norm^2 - 2 * norm + 1 for every norm >= 0:
   it is never negative and it is exactly 0 when the norm is exactly 1. *)
C16_PenaltyNonNegative ==
  LossDone =>
    /\ RLe(RInt(0), fx.grad_penalty)
    /\ REq(fx.grad_penalty,
           RAdd(RSub(RMul(fx.norm, fx.norm), RMul(RInt(2), fx.norm)), RInt(1)))
    /\ REq(fx.norm, RInt(1)) => fx.grad_penalty = RInt(0)
    /\ fx.grad_penalty = RInt(0) => REq(fx.norm, RInt(1))

C16_Witness ==
  /\ LossDone
  /\ fx.norm = <<1, 1>>
  /\ fx.grad_penalty = <<0, 1>>

(* ================================================================== *)
(* One call of _exploration, lines 417-438, over every config and       *)
(* every draw (specification SpecExplore).                             *)
(* ================================================================== *)
ExplAmounts == {RNorm(<<expl_amount, Unit>>), RInt(3)}
ExplDecays == {0, 2}
ExplMins == {RInt(0), <<1, 4>>}
EvalNoises == {RInt(0), RNorm(<<1, Unit>>)}

InitExplore ==
  /\ MainOff
  /\ tr = TrOff
  /\ lr = LrOff
  /\ ctr = CtrOff
  /\ \E a \in -Unit..Unit, training \in BOOLEAN, k \in 0..MaxHalvings, rnd \in Rnd,
        c \in [expl : ExplChoices, eval_noise : EvalNoises, expl_amount : ExplAmounts,
               expl_decay : ExplDecays, expl_min : ExplMins] :
       fx = [op |-> "exploration", phase |-> "input",
             action |-> RNorm(<<a, Unit>>), training |-> training, c |-> c,
             step |-> IF c.expl_decay = 0 THEN k ELSE k * c.expl_decay,
             rnd |-> rnd, active |-> FALSE, amount |-> RInt(0), result |-> Raised]

(* _exploration is called; amount is the noise scale it uses when
   exploration is active *)
ComputeExploration ==
  /\ fx.phase = "input"
  /\ LET active == fx.training \/ fx.c.eval_noise # RInt(0)
     IN fx' = [fx EXCEPT
                 !.phase = "done",
                 !.active = active,
                 !.amount = IF active THEN ExplAmount(fx.training, fx.c, fx.step)
                            ELSE RInt(0),
                 !.result = exploration(fx.action, fx.training, fx.c, fx.rnd, fx.step)]
  /\ UNCHANGED <<tr, lr, ctr, MainVars>>

NextExplore == ComputeExploration

SpecExplore == InitExplore /\ [][NextExplore]_vars

(* C17: with 'additive_gaussian' and exploration active the returned action
   lies in [-1, 1] for every policy action, noise sample and noise scale; in
   training the noise scale is never below expl_min when expl_min is set. *)
C17_NoisyActionInRange ==
  (fx.op = "exploration" /\ fx.phase = "done") =>
    /\ (fx.c.expl = "additive_gaussian" /\ fx.active) =>
         /\ ~fx.result.raised
         /\ RLe(RInt(-1), fx.result.action)
         /\ RLe(fx.result.action, RInt(1))
    /\ (fx.training /\ fx.c.expl_min # RInt(0)) => RLe(fx.c.expl_min, fx.amount)

C17_Witness ==
  /\ fx.op = "exploration" /\ fx.phase = "done"
  /\ fx.c.expl = "additive_gaussian" /\ fx.training
  /\ fx.c.expl_amount = <<1, 2>> /\ fx.c.expl_decay = 2 /\ fx.step = 4
  /\ fx.c.expl_min = <<1, 4>> /\ fx.amount = <<1, 4>>
  /\ fx.action = RInt(1) /\ fx.rnd.z = 1
  /\ fx.result.action = RInt(1)

(* ================================================================== *)
(* utils.Counter, pnn-dr-main-robosuite/utils.py lines 9-32, shared by  *)
(* several processes (specification SpecCounter).  The counts stay far  *)
(* below the largest value of the C int behind mp.Value("i").           *)
(* ================================================================== *)
MaxProcs == 2
MaxIncrements == 3

Procs == 1..MaxProcs

(* faulty variant: the lock never makes a caller wait *)
LockFreeAlways(lock) == TRUE

(* mp.Lock: `with self.lock` is entered only while no process holds it *)
LockFree(lock) == lock = None

InitCounter ==
  /\ MainOff
  /\ tr = TrOff
  /\ lr = LrOff
  /\ fx = FxOff
  /\ ctr = [phase |-> "run", val |-> 0, lock |-> None,
            pc |-> [p \in Procs |-> "idle"],
            tmp |-> [p \in Procs |-> 0],
            ret |-> [p \in Procs |-> None],
            seen |-> [p \in Procs |-> None],
            called |-> 0, completed |-> 0]

(* a process calls increment() *)
CallIncrement(p) ==
  /\ ctr.phase = "run"
  /\ ctr.pc[p] = "idle"
  /\ ctr.called < MaxIncrements
  /\ ctr' = [ctr EXCEPT !.pc[p] = "inc_enter", !.called = @ + 1]
  /\ UNCHANGED <<tr, lr, fx, MainVars>>

(* a process calls value() *)
CallValue(p) ==
  /\ ctr.phase = "run"
  /\ ctr.pc[p] = "idle"
  /\ ctr' = [ctr EXCEPT !.pc[p] = "val_enter", !.ret[p] = None, !.seen[p] = None]
  /\ UNCHANGED <<tr, lr, fx, MainVars>>

(* lines 21 and 31: `with self.lock` acquires the lock *)
Acquire(p) ==
  /\ ctr.phase = "run"
  /\ ctr.pc[p] \in {"inc_enter", "val_enter"}
  /\ LockFree(ctr.lock)
  /\ ctr' = [ctr EXCEPT !.lock = p,
                        !.pc[p] = IF @ = "inc_enter" THEN "inc_read" ELSE "val_read"]
  /\ UNCHANGED <<tr, lr, fx, MainVars>>

(* line 22: `self.val.value += 1` first reads the value ... *)
IncrementRead(p) ==
  /\ ctr.phase = "run"
  /\ ctr.pc[p] = "inc_read"
  /\ ctr' = [ctr EXCEPT !.tmp[p] = ctr.val, !.pc[p] = "inc_write"]
  /\ UNCHANGED <<tr, lr, fx, MainVars>>

(* ... and then stores the value it read plus one *)
IncrementWrite(p) ==
  /\ ctr.phase = "run"
  /\ ctr.pc[p] = "inc_write"
  /\ ctr' = [ctr EXCEPT !.val = ctr.tmp[p] + 1, !.pc[p] = "inc_exit"]
  /\ UNCHANGED <<tr, lr, fx, MainVars>>

(* line 32: value() reads the value it will return; seen is the number of
   increment() calls completed at that moment *)
ValueRead(p) ==
  /\ ctr.phase = "run"
  /\ ctr.pc[p] = "val_read"
  /\ ctr' = [ctr EXCEPT !.ret[p] = ctr.val, !.seen[p] = ctr.completed,
                        !.pc[p] = "val_exit"]
  /\ UNCHANGED <<tr, lr, fx, MainVars>>

(* the `with` block is left: the lock is released and the call returns *)
Release(p) ==
  /\ ctr.phase = "run"
  /\ ctr.pc[p] \in {"inc_exit", "val_exit"}
  /\ ctr' = [ctr EXCEPT !.lock = None, !.pc[p] = "idle",
                        !.completed = IF ctr.pc[p] = "inc_exit" THEN @ + 1 ELSE @]
  /\ UNCHANGED <<tr, lr, fx, MainVars>>

NextCounter ==
  \/ \E p \in Procs : CallIncrement(p)
  \/ \E p \in Procs : CallValue(p)
  \/ \E p \in Procs : Acquire(p)
  \/ \E p \in Procs : IncrementRead(p)
  \/ \E p \in Procs : IncrementWrite(p)
  \/ \E p \in Procs : ValueRead(p)
  \/ \E p \in Procs : Release(p)

SpecCounter == InitCounter /\ [][NextCounter]_vars

(* C18: in every interleaving each increment() raises the counter by exactly
   one and none is lost: the counter is the number of completed increments
   (plus the one whose store is done and whose call has not returned yet),
   a step never changes it by anything but +1, and value() returns the number
   of increments completed when it reads, never a partial one. *)
C18_NoLostIncrement ==
  /\ [](ctr.phase = "run" =>
         /\ ctr.val = ctr.completed
                        + Cardinality({p \in Procs : ctr.pc[p] = "inc_exit"})
         /\ Cardinality({p \in Procs : ctr.pc[p] = "inc_exit"}) <= 1
         /\ (\A p \in Procs : ctr.pc[p] = "idle") => ctr.val = ctr.called
         /\ \A p \in Procs : ctr.ret[p] # None => ctr.ret[p] = ctr.seen[p])
  /\ [][ctr.phase = "run" => ctr'.val \in {ctr.val, ctr.val + 1}]_vars

C18_Witness ==
  /\ ctr.phase = "run"
  /\ ctr.completed = 3 /\ ctr.val = 3
  /\ ctr.pc[1] = "val_exit" /\ ctr.ret[1] = 3
  /\ ctr.ret[2] = 1

(* ================================================================== *)
(* The state an agent call hands to the policy, __call__ lines 151-157 *)
(* and policy lines 178-184 (specification SpecCarry).  A tensor has   *)
(* one scalar per environment; `state` is (latent, action) or absent.  *)
(* ================================================================== *)
LatentKeys == {"mean", "std", "stoch", "deter"}
LatentProfiles == {[mean |-> 1, std |-> 1, stoch |-> 2, deter |-> -1],
                   [mean |-> -1, std |-> 2, stoch |-> 1, deter |-> 2],
                   [mean |-> 0, std |-> 1, stoch |-> 0, deter |-> 1]}
PrevActions == {-1, 1}

NoState == [set |-> FALSE]

(* dynamics_model.initialize(batch_size): the latent state of a cold start *)
initialize(n) ==
  [k \in LatentKeys |-> [e \in 1..n |-> IF k = "std" THEN 1 ELSE 0]]

(* faulty variant: the mask keeps the reset environments and zeroes the others *)
ResetMaskInverted(reset) == [e \in DOMAIN reset |-> IF reset[e] THEN 1 ELSE 0]

(* __call__, line 156: mask = 1 - reset *)
ResetMask(reset) == [e \in DOMAIN reset |-> 1 - (IF reset[e] THEN 1 ELSE 0)]

(* __call__, lines 155-157: tf.nest.map_structure(lambda x: x * mask, state) *)
MaskState(state, reset) ==
  IF state.set /\ (\E e \in DOMAIN reset : reset[e])
    THEN LET mask == ResetMask(reset)
         IN [set |-> TRUE,
             latent |-> [k \in LatentKeys |->
                           [e \in DOMAIN reset |-> state.latent[k][e] * mask[e]]],
             action |-> [e \in DOMAIN reset |-> state.action[e] * mask[e]]]
    ELSE state

(* policy, lines 179-183: the latent state and the previous action the
   policy starts from *)
PolicyStart(state, n) ==
  IF ~state.set
    THEN [latent |-> initialize(n), action |-> [e \in 1..n |-> 0]]
    ELSE [latent |-> state.latent, action |-> state.action]

InitCarry ==
  /\ MainOff
  /\ tr = TrOff
  /\ lr = LrOff
  /\ ctr = CtrOff
  /\ \E n \in 1..MaxEnvs :
       \E reset \in [1..n -> BOOLEAN], carried \in BOOLEAN,
          lat \in [1..n -> LatentProfiles], act \in [1..n -> PrevActions] :
         fx = [op |-> "carry", phase |-> "input", n |-> n, reset |-> reset,
               state |-> IF carried
                           THEN [set |-> TRUE,
                                 latent |-> [k \in LatentKeys |->
                                               [e \in 1..n |-> lat[e][k]]],
                                 action |-> act]
                           ELSE NoState,
               masked |-> NoState,
               start |-> [latent |-> << >>, action |-> << >>]]

(* __call__, lines 155-157: the carried state of the reset environments is
   masked *)
CallMask ==
  /\ fx.phase = "input"
  /\ fx' = [fx EXCEPT !.phase = "masked", !.masked = MaskState(fx.state, fx.reset)]
  /\ UNCHANGED <<tr, lr, ctr, MainVars>>

(* __call__, line 171, and policy, lines 179-183 *)
CallPolicyStart ==
  /\ fx.phase = "masked"
  /\ fx' = [fx EXCEPT !.phase = "done", !.start = PolicyStart(fx.masked, fx.n)]
  /\ UNCHANGED <<tr, lr, ctr, MainVars>>

NextCarry == CallMask \/ CallPolicyStart

SpecCarry == InitCarry /\ [][NextCarry]_vars

(* C20: with a carried state the policy starts, for every environment whose
   reset flag is set, from an all-zero latent state and previous action, and
   for every other environment from the carried values; with no flag set the
   carried state is passed unchanged; with no carried state the policy
   starts from the initial latent state and an all-zero previous action. *)
C20_ResetZeroesExactlyFlagged ==
  (fx.op = "carry" /\ fx.phase = "done") =>
    /\ fx.state.set =>
         /\ \A e \in 1..fx.n :
              IF fx.reset[e]
                THEN /\ fx.start.action[e] = 0
                     /\ \A k \in LatentKeys : fx.start.latent[k][e] = 0
                ELSE /\ fx.start.action[e] = fx.state.action[e]
                     /\ \A k \in LatentKeys :
                          fx.start.latent[k][e] = fx.state.latent[k][e]
         /\ (\A e \in 1..fx.n : ~fx.reset[e]) =>
              /\ fx.masked = fx.state
              /\ fx.start.latent = fx.state.latent
              /\ fx.start.action = fx.state.action
    /\ ~fx.state.set =>
         /\ fx.start.latent = initialize(fx.n)
         /\ \A e \in 1..fx.n : fx.start.action[e] = 0

C20_Witness ==
  /\ fx.op = "carry" /\ fx.phase = "done"
  /\ fx.n = 2 /\ fx.state.set
  /\ fx.reset[1] /\ ~fx.reset[2]
  /\ fx.state.action = <<1, -1>> /\ fx.start.action = <<0, -1>>
  /\ fx.state.latent["stoch"] = <<2, 1>> /\ fx.start.latent["stoch"] = <<0, 1>>

====
